---------------------------- MODULE Spec2Model ----------------------------
(* A model of terminal.c of cbw: the configuration-string parser, the      *)
(* keymap and graphics tables built by setup_term, the keystroke matcher   *)
(* getcmd, and the display-mode machine behind putsym.                     *)
(*                                                                         *)
(* Characters are their codes 0..255; a C string is a sequence of codes    *)
(* followed in memory by a 0.  EOF, what getchar() yields at end of input, *)
(* is -1.  Terminal output is a sequence whose elements are either a byte  *)
(* or the name of the capability string that was sent with Puts.           *)
EXTENDS Integers, Sequences, FiniteSets, TLC

VARIABLES
    pc,         \* where the program is: start, genv, kenv_user, kenv_tcap,
                \* kenv_dflt, tty, running, getcmd, quote, unset, exited,
                \* crashed; or parse / parsed in the parser's own runs
    kenvmem,    \* memory at getenv(KEYMAPVAR): [text, after], or NoString
    genvmem,    \* memory at getenv(GRAPHICSVAR): [text, after], or NoString
    tcap,       \* the key capabilities tgetstr returned (term_up, ...)
    keycmdtab,  \* the entries of keycmdtab[] before keycmdp
    graphtab,   \* graphtab[0 .. NSYMC-1]
    termmode,   \* the tracked terminal mode
    out,        \* what the operation in progress (or the last one) sent
    emcall,     \* the last call of enter_mode: [from, to, out], or NoCall
    last,       \* the operation in progress (or the last one): [op, arg, from]
    keystroke,  \* getcmd: the string in keystroke[], which its first 0 ends
    nchars,     \* getcmd: the bytes stored in keystroke[] since the last reset
    ret,        \* the value getcmd returned last, or NoRet
    diag,       \* the diagnostic disperr printed in this operation, or ""
    pmem,       \* parser runs: the memory read_varval reads
    ppos,       \* parser runs: var, as an index into pmem
    pbuf,       \* parser runs: buf[0 .. bp-1]
    pval,       \* parser runs: the string savestr stored, or NoString
    gchar,      \* the symbol char2sym returned in the last operation, or NoSym
    screen,     \* the modes open on the terminal itself: a subset of
                \* {SMGRAPHIC, SMSTANDOUT}
    eof,        \* stdin has ended: every getchar() from here on yields EOF
    eofreads    \* the calls of getchar() since stdin ended, counted modulo 2

vars == <<pc, kenvmem, genvmem, tcap, keycmdtab, graphtab, termmode, out,
          emcall, last, keystroke, nchars, ret, diag, pmem, ppos, pbuf, pval,
          gchar, screen, eof, eofreads>>

-----------------------------------------------------------------------------
(* Bounds of the model. *)

\* The longest text whose decoding the parser runs enumerate.
MaxText == 4
\* The most bytes one keystroke of getcmd is followed for.
MaxChars == 11
\* The most alerts one getcmd call is followed for.
MaxBeeps == 2

-----------------------------------------------------------------------------
(* Characters. *)

EOF == -1
NUL == 0
CHARM == 255
CMDSHIFT == 8
ESC == 27
BEL == 7
LINEFEED == 10
TAB == 9
BACKSLASH == 92
COLON == 58
EQUALS == 61

\* The code of a character written as a one-character string.
Ord(ch) ==
    CASE ch = "\\" -> 92 [] ch = ":" -> 58 [] ch = "=" -> 61 [] ch = "-" -> 45
      [] ch = "0" -> 48 [] ch = "1" -> 49 [] ch = "2" -> 50 [] ch = "3" -> 51
      [] ch = "4" -> 52 [] ch = "5" -> 53 [] ch = "6" -> 54 [] ch = "7" -> 55
      [] ch = "8" -> 56 [] ch = "9" -> 57
      [] ch = "A" -> 65 [] ch = "B" -> 66 [] ch = "E" -> 69 [] ch = "G" -> 71
      [] ch = "N" -> 78 [] ch = "P" -> 80 [] ch = "S" -> 83 [] ch = "X" -> 88 [] ch = "Z" -> 90
      [] ch = "a" -> 97 [] ch = "b" -> 98 [] ch = "c" -> 99 [] ch = "d" -> 100
      [] ch = "e" -> 101 [] ch = "f" -> 102 [] ch = "h" -> 104
      [] ch = "i" -> 105 [] ch = "j" -> 106 [] ch = "k" -> 107
      [] ch = "l" -> 108 [] ch = "n" -> 110 [] ch = "o" -> 111
      [] ch = "p" -> 112 [] ch = "q" -> 113 [] ch = "r" -> 114
      [] ch = "s" -> 115 [] ch = "t" -> 116 [] ch = "u" -> 117
      [] ch = "v" -> 118 [] ch = "w" -> 119 [] ch = "x" -> 120
      [] ch = "g" -> 103 [] ch = "m" -> 109
      [] ch = "y" -> 121 [] ch = "z" -> 122 [] ch = "|" -> 124 [] ch = "_" -> 95
      [] ch = "+" -> 43 [] ch = "?" -> 63 [] ch = "^" -> 94 [] ch = "#" -> 35

\* A text given as a tuple of one-character strings.
Txt(s) == [i \in 1..Len(s) |-> Ord(s[i])]

\* A value stored into a char, read back as 0..255.
ToChar(n) == n % 256

\* printable(c) of window.h.
printable(c) == c >= 32 /\ c <= 126

\* QUOTEC: (CNTRL & 'Q').
QUOTEC == 17

-----------------------------------------------------------------------------
(* Terminal output. *)

\* Puts of the capability string of that name.
Cap(name) == [cap |-> name]
\* One byte sent as it is.
Byte(b) == [byte |-> b]
Bytes(str) == [i \in 1..Len(str) |-> Byte(str[i])]

-----------------------------------------------------------------------------
(* Strings in memory. *)

\* The NULL pointer, where a string is expected.
NoString == <<-1>>

\* A string in memory: its text, the terminating 0, and whatever the memory
\* holds after the terminator.  Past the modelled bytes the memory reads 0.
Mem(text, after) == text \o <<NUL>> \o after

At(m, p) == IF p >= 1 /\ p <= Len(m) THEN m[p] ELSE NUL

\* strlen from position p.
RECURSIVE StrEnd(_, _)
StrEnd(m, p) == IF At(m, p) = NUL THEN p ELSE StrEnd(m, p + 1)

\* The C string that starts at position p of m.
CStrAt(m, p) == SubSeq(m, p, StrEnd(m, p) - 1)

\* index(s, c) != NULL, for a string constant s given as its text: the libc
\* routine finds the terminating 0 too.
index(s, c) == c = NUL \/ \E i \in 1..Len(s) : s[i] = c

-----------------------------------------------------------------------------
(* The configuration-string parser. *)

\* The character classes of the parser (terminal.h).
DIGITS == Txt(<<"0", "1", "2", "3", "4", "5", "6", "7">>)
VARSEP == Txt(<<":">>)
VARTERM == Txt(<<":">>)
GVARMODES == Txt(<<"N", "G", "S">>)

\* read_slashed: the character decoded at position p of m, and the position
\* after the characters read.
read_slashed(m, p) ==
    IF At(m, p) # BACKSLASH
    THEN [c |-> At(m, p), p |-> p + 1]
    ELSE LET str == p + 1
             c == At(m, str)
         IN  CASE c = Ord("n") -> [c |-> 10, p |-> str + 1]
               [] c = Ord("t") -> [c |-> 9, p |-> str + 1]
               [] c = Ord("E") -> [c |-> 27, p |-> str + 1]
               [] c = Ord("f") -> [c |-> 12, p |-> str + 1]
               [] c = Ord("r") -> [c |-> 13, p |-> str + 1]
               [] OTHER ->
                    IF ~index(DIGITS, c)
                    THEN [c |-> c, p |-> str + 1]
                    ELSE LET c1 == c - Ord("0") IN
                    IF ~index(DIGITS, At(m, str + 1))
                    THEN [c |-> ToChar(c1), p |-> str + 1]
                    ELSE LET c2 == (c1 * 8) + (At(m, str + 1) - Ord("0")) IN
                    IF ~index(DIGITS, At(m, str + 2))
                    THEN [c |-> ToChar(c2), p |-> str + 2]
                    ELSE [c |-> ToChar((c2 * 8) + (At(m, str + 2) - Ord("0"))),
                          p |-> str + 3]

\* savestr: the copy of a buffer up to its first 0.
savestr(b) == CStrAt(b, 1)

\* The loop test of read_varval: there is a character to decode at p.
MoreValue(m, p) == At(m, p) # NUL /\ ~index(VARTERM, At(m, p))

\* read_varval: the string stored and the position after the value.
RECURSIVE read_varval(_, _, _)
read_varval(m, p, b) ==
    IF MoreValue(m, p)
    THEN LET r == read_slashed(m, p) IN read_varval(m, r.p, Append(b, r.c))
    ELSE [val |-> savestr(b), p |-> p]

\* substrp: the model string starts with the given string.
substrp(model, given) ==
    /\ Len(given) <= Len(model)
    /\ \A i \in 1..Len(given) : model[i] = given[i]

\* The first position at or after p that holds c, or 0 when the string that
\* starts at p has none.
RECURSIVE FindChar(_, _, _)
FindChar(m, p, c) ==
    IF At(m, p) = c THEN p
    ELSE IF At(m, p) = NUL THEN 0
    ELSE FindChar(m, p + 1, c)

RECURSIVE SkipSep(_, _)
SkipSep(m, p) ==
    IF At(m, p) # NUL /\ index(VARSEP, At(m, p)) THEN SkipSep(m, p + 1) ELSE p

\* read_varlabel: [ok, p, val]; p is *strp on return.
read_varlabel(m, p, labeltab) ==
    LET str == SkipSep(m, p)
        hits == {i \in 1..Len(labeltab) : substrp(CStrAt(m, str), labeltab[i].label)}
    IN  IF hits = {}
        THEN [ok |-> FALSE, p |-> str, val |-> 0]
        ELSE LET lp == CHOOSE i \in hits : \A j \in hits : i <= j
                 eq == FindChar(m, str, EQUALS)
             IN  IF eq = 0
                 THEN [ok |-> FALSE, p |-> p, val |-> labeltab[lp].value]
                 ELSE [ok |-> TRUE, p |-> eq + 1, val |-> labeltab[lp].value]

-----------------------------------------------------------------------------
(* The tables. *)

\* Command codes: a command's index in cmdnames[] is one less than its code.
CGO_UP == 1
CGO_DOWN == 2
CGO_LEFT == 3
CGO_RIGHT == 4
CREFRESH == 5
CUNDO == 6
CCLRLINE == 7
CWRDSRCH == 8
CDELF == 9
CDELB == 10
CPREVBLOCK == 11
CNEXTBLOCK == 12
CACCEPT == 13
CEXECUTE == 14
CINSERT == 15
CTRYALL == 16
CJUMPCMD == 17

cmdnames ==
    << [label |-> Txt(<<"u", "p">>), value |-> CGO_UP],
       [label |-> Txt(<<"d", "o">>), value |-> CGO_DOWN],
       [label |-> Txt(<<"l", "e">>), value |-> CGO_LEFT],
       [label |-> Txt(<<"r", "i">>), value |-> CGO_RIGHT],
       [label |-> Txt(<<"r", "e">>), value |-> CREFRESH],
       [label |-> Txt(<<"u", "n">>), value |-> CUNDO],
       [label |-> Txt(<<"c", "l">>), value |-> CCLRLINE],
       [label |-> Txt(<<"w", "s">>), value |-> CWRDSRCH],
       [label |-> Txt(<<"d", "f">>), value |-> CDELF],
       [label |-> Txt(<<"d", "b">>), value |-> CDELB],
       [label |-> Txt(<<"p", "r">>), value |-> CPREVBLOCK],
       [label |-> Txt(<<"n", "e">>), value |-> CNEXTBLOCK],
       [label |-> Txt(<<"a", "c">>), value |-> CACCEPT],
       [label |-> Txt(<<"e", "x">>), value |-> CEXECUTE],
       [label |-> Txt(<<"-", "-">>), value |-> CINSERT],
       [label |-> Txt(<<"t", "a">>), value |-> CTRYALL],
       [label |-> Txt(<<"j", "c">>), value |-> CJUMPCMD] >>

\* Symbols: a literal byte, or SYMBOLC plus the index of a meta-symbol.
NSYMC == 11
SYMBOLC == 256
SYMBOLM == 255
STAB == SYMBOLC + 0
SNOTASCII == SYMBOLC + 1
SLINEFEED == SYMBOLC + 2
SCARETURN == SYMBOLC + 3
SFORMFEED == SYMBOLC + 4
SCONTCODE == SYMBOLC + 5
SUNKNOWN == SYMBOLC + 6
SUNDERLINE == SYMBOLC + 7
SHORZBAR == SYMBOLC + 8
SVERTBAR == SYMBOLC + 9
SLLCORNER == SYMBOLC + 10

graphic(symbol) == symbol >= SYMBOLC

symnames ==
    << [label |-> Txt(<<"t", "b">>), value |-> STAB],
       [label |-> Txt(<<"n", "a">>), value |-> SNOTASCII],
       [label |-> Txt(<<"l", "f">>), value |-> SLINEFEED],
       [label |-> Txt(<<"c", "r">>), value |-> SCARETURN],
       [label |-> Txt(<<"f", "f">>), value |-> SFORMFEED],
       [label |-> Txt(<<"c", "c">>), value |-> SCONTCODE],
       [label |-> Txt(<<"u", "k">>), value |-> SUNKNOWN],
       [label |-> Txt(<<"u", "l">>), value |-> SUNDERLINE],
       [label |-> Txt(<<"h", "b">>), value |-> SHORZBAR],
       [label |-> Txt(<<"v", "b">>), value |-> SVERTBAR],
       [label |-> Txt(<<"l", "l">>), value |-> SLLCORNER] >>

\* notascii(c) of window.h.
notascii(c) == c >= 128

\* char2sym without its test of the end-of-input value.
char2sym_noeof(pchar) ==
    IF printable(pchar) THEN pchar
    ELSE IF notascii(pchar) THEN SNOTASCII
    ELSE IF pchar = 10 THEN SLINEFEED
    ELSE IF pchar = 13 THEN SCARETURN
    ELSE IF pchar = 12 THEN SFORMFEED
    ELSE IF pchar = 9 THEN STAB
    ELSE SCONTCODE

\* char2sym: the symbol that displays a character, or the end of input.
char2sym(pchar) ==
    IF printable(pchar) THEN pchar
    ELSE IF pchar = -1 THEN SUNKNOWN
    ELSE IF notascii(pchar) THEN SNOTASCII
    ELSE IF pchar = 10 THEN SLINEFEED
    ELSE IF pchar = 13 THEN SCARETURN
    ELSE IF pchar = 12 THEN SFORMFEED
    ELSE IF pchar = 9 THEN STAB
    ELSE SCONTCODE

\* Terminal modes: the mode markers of a graphics entry.
SMNORMAL == 78
SMGRAPHIC == 71
SMSTANDOUT == 83
Modes == {SMNORMAL, SMGRAPHIC, SMSTANDOUT}

\* The compiled-in key bindings.
DKEYMAP ==
    Txt(<<"u", "p", "=", "\\", "0", "2", "0", ":",
          "d", "o", "=", "\\", "0", "1", "6", ":",
          "r", "e", "=", "\\", "0", "1", "4", ":",
          "e", "x", "=", "\\", "n">>)

\* The compiled-in graphics.
DGRAPHICS ==
    Txt(<<"t", "b", "=", "\\", "N", "t", ":", "n", "a", "=", "\\", "S", "#", ":",
          "l", "f", "=", "\\", "N", "n", ":", "c", "r", "=", "\\", "N", "r", ":",
          "f", "f", "=", "\\", "N", "f", ":", "c", "c", "=", "\\", "S", "^", ":",
          "u", "k", "=", "\\", "N", "?", ":", "u", "l", "=", "\\", "N", "_", ":",
          "h", "b", "=", "\\", "G", "q", ":", "v", "b", "=", "\\", "G", "x", ":",
          "l", "l", "=", "\\", "G", "m">>)

\* read_keymap from position p of m, appending to tab: the table, and the
\* diagnostic of the exit(1) that ended it ("" when it returned).
RECURSIVE read_keymap(_, _, _)
read_keymap(m, p, tab) ==
    IF At(m, p) = NUL
    THEN [tab |-> tab, err |-> ""]
    ELSE LET l == read_varlabel(m, p, cmdnames) IN
         IF ~l.ok
         THEN IF At(m, l.p) = NUL
              THEN [tab |-> tab, err |-> ""]
              ELSE [tab |-> tab, err |-> "Can't parse label in read_keymap."]
         ELSE LET v == read_varval(m, l.p, <<>>) IN
              read_keymap(m, v.p, Append(tab, [c_code |-> l.val, c_seq |-> v.val]))

\* read_graphics storing the mode of an entry before it tests the marker.
RECURSIVE read_graphics_early(_, _, _)
read_graphics_early(m, p, tab) ==
    IF At(m, p) = NUL
    THEN [tab |-> tab, err |-> ""]
    ELSE LET l == read_varlabel(m, p, symnames) IN
         IF ~l.ok
         THEN IF At(m, l.p) = NUL
              THEN [tab |-> tab, err |-> ""]
              ELSE [tab |-> tab, err |-> "Can't parse label in GRAPHICSMAP."]
         ELSE LET sym_idx == l.val % (SYMBOLM + 1)
                  early == [tab EXCEPT ![sym_idx].s_mode = At(m, l.p + 1) % (CHARM + 1)]
              IN  IF At(m, l.p) # BACKSLASH \/ ~index(GVARMODES, At(m, l.p + 1))
                  THEN [tab |-> early, err |-> "GRAPHICSMAP value has bad mode."]
                  ELSE LET v == read_varval(m, l.p + 2, <<>>) IN
                       read_graphics_early(m, v.p,
                           [early EXCEPT ![sym_idx].s_seq = v.val])

\* read_graphics from position p of m, updating tab.
RECURSIVE read_graphics(_, _, _)
read_graphics(m, p, tab) ==
    IF At(m, p) = NUL
    THEN [tab |-> tab, err |-> ""]
    ELSE LET l == read_varlabel(m, p, symnames) IN
         IF ~l.ok
         THEN IF At(m, l.p) = NUL
              THEN [tab |-> tab, err |-> ""]
              ELSE [tab |-> tab, err |-> "Can't parse label in GRAPHICSMAP."]
         ELSE IF At(m, l.p) # BACKSLASH \/ ~index(GVARMODES, At(m, l.p + 1))
         THEN [tab |-> tab, err |-> "GRAPHICSMAP value has bad mode."]
         ELSE LET sym_idx == l.val % (SYMBOLM + 1)
                  v == read_varval(m, l.p + 2, <<>>)
              IN  read_graphics(m, v.p,
                      [tab EXCEPT ![sym_idx] =
                          [s_mode |-> At(m, l.p + 1) % (CHARM + 1), s_seq |-> v.val]])

\* One capability of kenv_termcap: label=value: appended when it is present.
CapEntry(str, cap, code) ==
    IF cap = NoString THEN str
    ELSE str \o cmdnames[code].label \o <<EQUALS>> \o cap \o <<COLON>>

\* kenv_termcap: the keymap string built from the key capabilities.
kenv_termcap(t) ==
    CapEntry(CapEntry(CapEntry(CapEntry(
    CapEntry(CapEntry(CapEntry(CapEntry(<<>>,
        t.up, CGO_UP), t.down, CGO_DOWN), t.left, CGO_LEFT), t.right, CGO_RIGHT),
        t.f1, CPREVBLOCK), t.f2, CNEXTBLOCK), t.f3, CACCEPT), t.f4, CJUMPCMD)

\* enter_mode starting the new mode before it ends the old one.
enter_mode_out_swapped(cur, mode) ==
    IF cur = mode THEN <<>>
    ELSE (CASE mode = SMNORMAL -> <<>>
            [] mode = SMGRAPHIC -> <<Cap("start_alt")>>
            [] mode = SMSTANDOUT -> <<Cap("start_so")>>
            [] OTHER -> <<>>)
         \o
         (CASE cur = SMNORMAL -> <<>>
            [] cur = SMGRAPHIC -> <<Cap("end_alt")>>
            [] cur = SMSTANDOUT -> <<Cap("end_so")>>
            [] OTHER -> <<Cap("end_so"), Cap("end_alt")>>)

\* enter_mode without the end sequence of the mode it leaves.
enter_mode_out_noend(cur, mode) ==
    IF cur = mode THEN <<>>
    ELSE CASE mode = SMNORMAL -> <<>>
           [] mode = SMGRAPHIC -> <<Cap("start_alt")>>
           [] mode = SMSTANDOUT -> <<Cap("start_so")>>
           [] OTHER -> <<>>

\* enter_mode without its test of termmode == mode.
enter_mode_out_always(cur, mode) ==
    (CASE cur = SMNORMAL -> <<>>
       [] cur = SMGRAPHIC -> <<Cap("end_alt")>>
       [] cur = SMSTANDOUT -> <<Cap("end_so")>>
       [] OTHER -> <<Cap("end_so"), Cap("end_alt")>>)
    \o
    (CASE mode = SMNORMAL -> <<>>
       [] mode = SMGRAPHIC -> <<Cap("start_alt")>>
       [] mode = SMSTANDOUT -> <<Cap("start_so")>>
       [] OTHER -> <<>>)

\* The output of enter_mode(mode) entered with termmode = cur.
enter_mode_out(cur, mode) ==
    IF cur = mode THEN <<>>
    ELSE (CASE cur = SMNORMAL -> <<>>
            [] cur = SMGRAPHIC -> <<Cap("end_alt")>>
            [] cur = SMSTANDOUT -> <<Cap("end_so")>>
            [] OTHER -> <<Cap("end_so"), Cap("end_alt")>>)
         \o
         (CASE mode = SMNORMAL -> <<>>
            [] mode = SMGRAPHIC -> <<Cap("start_alt")>>
            [] mode = SMSTANDOUT -> <<Cap("start_so")>>
            [] OTHER -> <<>>)

\* enter_mode recording Standout when it enters Graphic, and the reverse.
enter_mode_mode_crossed(cur, mode) ==
    IF cur = mode THEN cur
    ELSE IF mode = SMGRAPHIC THEN SMSTANDOUT
    ELSE IF mode = SMSTANDOUT THEN SMGRAPHIC
    ELSE mode

\* enter_mode without its assignment to termmode.
enter_mode_mode_kept(cur, mode) == cur

\* termmode after enter_mode(mode).
enter_mode_mode(cur, mode) == IF cur = mode THEN cur ELSE mode

-----------------------------------------------------------------------------
(* Bit operations on naturals. *)

RECURSIVE BitAnd(_, _)
BitAnd(a, b) ==
    IF a = 0 \/ b = 0 THEN 0
    ELSE ((a % 2) * (b % 2)) + 2 * BitAnd(a \div 2, b \div 2)

RECURSIVE BitOr(_, _)
BitOr(a, b) ==
    IF a = 0 THEN b
    ELSE IF b = 0 THEN a
    ELSE (IF (a % 2) + (b % 2) > 0 THEN 1 ELSE 0) + 2 * BitOr(a \div 2, b \div 2)

RECURSIVE Pow2(_)
Pow2(n) == IF n = 0 THEN 1 ELSE 2 * Pow2(n - 1)

\* x & mask for an int x that may be negative (two's complement), mask < 2^16.
AndMask(x, mask) == BitAnd(x % 65536, mask)

-----------------------------------------------------------------------------
(* The keystroke matcher. *)

SK_SUBSTR == -1
SK_NOMATCH == -2
\* char keystroke[10].
KEYSTROKELEN == 10

\* srch_ktab keeping the last entry whose sequence is the stroke.
srch_ktab_last(ktab, stroke) ==
    LET exact == {i \in 1..Len(ktab) : ktab[i].c_seq = stroke}
        nsubstr == Cardinality({i \in 1..Len(ktab) : substrp(ktab[i].c_seq, stroke)})
    IN  IF exact # {} THEN CHOOSE i \in exact : \A j \in exact : i >= j
        ELSE IF nsubstr > 0 THEN SK_SUBSTR
        ELSE SK_NOMATCH

\* srch_ktab: the index (from 1) of the first entry whose sequence is the
\* stroke, else SK_SUBSTR when the stroke starts some entry's sequence, else
\* SK_NOMATCH.
srch_ktab(ktab, stroke) ==
    LET exact == {i \in 1..Len(ktab) : ktab[i].c_seq = stroke}
        nsubstr == Cardinality({i \in 1..Len(ktab) : substrp(ktab[i].c_seq, stroke)})
    IN  IF exact # {} THEN CHOOSE i \in exact : \A j \in exact : i <= j
        ELSE IF nsubstr > 0 THEN SK_SUBSTR
        ELSE SK_NOMATCH

\* The command value with the code shifted one bit short.
CmdValue_short(code, c) == BitOr(code * Pow2(CMDSHIFT - 1), AndMask(c, CHARM))

\* The value getcmd returns for a command code and the last value read.
CmdValue(code, c) == BitOr(code * Pow2(CMDSHIFT), AndMask(c, CHARM))

\* The string in keystroke[] after c is stored behind n bytes: a byte stored
\* behind a 0 is beyond the end of the string, and a 0 ends it.
StoreChar(ks, n, c) ==
    IF n = Len(ks) /\ ToChar(c) # NUL THEN Append(ks, ToChar(c)) ELSE ks

\* What one turn of the loop of getcmd does with the value c it read:
\* more (read on), beep (alert and start over), quote (read the quoted
\* byte), or ret (return the command code).
getcmd_step(ktab, ks, n, c) ==
    LET idx == srch_ktab(ktab, ks) IN
    CASE idx = SK_SUBSTR -> [do |-> "more", code |-> 0]
      [] idx = SK_NOMATCH ->
            IF n # 1 THEN [do |-> "beep", code |-> 0]
            ELSE IF c = QUOTEC THEN [do |-> "quote", code |-> CINSERT]
            ELSE IF printable(c) THEN [do |-> "ret", code |-> CINSERT]
            ELSE IF c # LINEFEED /\ c # TAB THEN [do |-> "beep", code |-> 0]
            ELSE [do |-> "ret", code |-> CINSERT]
      [] OTHER -> [do |-> "ret", code |-> ktab[idx].c_code]

-----------------------------------------------------------------------------
(* The environments the program is started in. *)

\* KEYMAPVAR: unset, or a string and the memory behind its terminator.
KeymapEnvs ==
    { NoString,
      Mem(Txt(<<"u", "p", "=", "\\", "E", "A", ":", "d", "o", "=", "\\", "E", "B">>), <<>>),
      Mem(Txt(<<"l", "e", "=", "\\", "E", "A", ":", "d", "o", "=", "\\", "0", "2", "0",
                ":", "e", "x", "=", "q">>), <<>>),
      Mem(Txt(<<"u", "p", "=", "A", "A", "A", "A", "A", "A", "A", "A", "A", "A">>), <<>>),
      Mem(Txt(<<"z", "z", "=", "1">>), <<>>),
      Mem(Txt(<<"u", "p", "=", "\\", "1">>), Txt(<<":", "z", "z">>)),
      Mem(Txt(<<"d", "o", "=", "B", ":", "u", "p">>), <<>>),
      Mem(Txt(<<"u", "p", "=", ":", "d", "o", "=", "B">>), <<>>),
      Mem(Txt(<<":", "u", "p", "=", "\\", "E", ":", ":", "d", "o", "w", "n", "=", "\\", ":", ":">>), <<>>) }

\* GRAPHICSVAR: unset, or a string and the memory behind its terminator.
GraphicsEnvs ==
    { NoString,
      Mem(Txt(<<"h", "b", "=", "\\", "S", "-">>), <<>>),
      Mem(Txt(<<"t", "b", "=", "\\">>), Txt(<<"X", "=", "1">>)),
      Mem(Txt(<<"h", "b", "=", "\\", "Z", "q">>), <<>>),
      Mem(Txt(<<"h", "b", "=", "-">>), <<>>),
      Mem(Txt(<<"h", "b", "=", "\\", "S", "-", ":", "v", "b", "=", "\\", "Z", "q">>), <<>>),
      Mem(Txt(<<"h", "b", "=", "\\", "S", "-", ":", "z", "z", "=", "\\", "N", "q">>), <<>>) }

\* The key capabilities of the terminal: tgetstr's strings, NULL when the
\* terminal has none.
NoKeys ==
    [up |-> NoString, down |-> NoString, left |-> NoString, right |-> NoString,
     f1 |-> NoString, f2 |-> NoString, f3 |-> NoString, f4 |-> NoString]

TermCaps ==
    { NoKeys,
      [NoKeys EXCEPT !.up = <<ESC, 65>>, !.down = <<ESC, 66>>, !.right = <<12>>,
                     !.f1 = <<ESC, 80>>],
      [up |-> <<ESC, 65>>, down |-> <<ESC, 66>>, left |-> <<ESC, 68>>,
       right |-> <<ESC, 67>>, f1 |-> <<ESC, 80>>, f2 |-> <<ESC, 81>>,
       f3 |-> <<ESC, 82>>, f4 |-> <<ESC, 83>>] }

\* The values getchar() yields in the model.
Inputs == {NUL, 1, LINEFEED, 12, 16, QUOTEC, ESC, 65, 66, 88, 113, 255, EOF}

\* The values char2sym is called with while the program runs.
Chars == {EOF, TAB, 65, 200}

\* The symbols putsym is called with in the model.
Symbols == {113, 200, STAB, SNOTASCII, SHORZBAR, SVERTBAR, SYMBOLC + NSYMC,
            SYMBOLC + SYMBOLM}

-----------------------------------------------------------------------------
(* The terminal. *)

\* What the terminal makes of the output seq from index i on, with the modes
\* of open switched on: the modes switched on afterwards, and whether a
\* mode was started while one was on, or ended while it was off.
RECURSIVE Replay(_, _, _)
Replay(open, seq, i) ==
    IF i > Len(seq) THEN [open |-> open, started_on |-> FALSE, ended_off |-> FALSE]
    ELSE LET o == seq[i]
             isstart == o \in {Cap("start_alt"), Cap("start_so")}
             isend == o \in {Cap("end_alt"), Cap("end_so")}
             mode == IF o \in {Cap("start_alt"), Cap("end_alt")}
                     THEN SMGRAPHIC ELSE SMSTANDOUT
             now == IF isstart THEN open \cup {mode}
                    ELSE IF isend THEN open \ {mode}
                    ELSE open
             rest == Replay(now, seq, i + 1)
         IN  [open |-> rest.open,
              started_on |-> rest.started_on \/ (isstart /\ open # {}),
              ended_off |-> rest.ended_off \/ (isend /\ mode \notin open)]

-----------------------------------------------------------------------------
(* The program. *)

NoCall == [none |-> TRUE]
NoRet == -1
NoByte == -2
NoSym == -1

Init ==
    /\ pc = "start"
    /\ kenvmem \in KeymapEnvs
    /\ genvmem \in GraphicsEnvs
    /\ tcap \in TermCaps
    /\ keycmdtab = <<>>
    /\ graphtab = [i \in 0..(NSYMC - 1) |-> [s_mode |-> 0, s_seq |-> NoString]]
    /\ termmode = -1
    /\ out = <<>>
    /\ emcall = NoCall
    /\ last = [op |-> "none", arg |-> NoByte, from |-> -1]
    /\ keystroke = <<>>
    /\ nchars = 0
    /\ ret = NoRet
    /\ diag = ""
    /\ pmem = <<>>
    /\ ppos = 1
    /\ pbuf = <<>>
    /\ pval = NoString
    /\ gchar = NoSym
    /\ screen \in SUBSET {SMGRAPHIC, SMSTANDOUT}
    /\ eof = FALSE
    /\ eofreads = 0

parservars == <<pmem, ppos, pbuf, pval>>
\* What the program is run in: the shell variables, the terminal's key
\* capabilities, and stdin.
envvars == <<kenvmem, genvmem, tcap, eof, eofreads>>
getcmdvars == <<keystroke, nchars, ret>>
modevars == <<termmode, out, emcall, last>>

\* get_genv, the first table setup_term builds (after get_termstrs).
GetGenv ==
    /\ pc = "start"
    /\ LET d == read_graphics(Mem(DGRAPHICS, <<>>), 1, graphtab)
           r == IF d.err # "" \/ genvmem = NoString THEN d
                ELSE read_graphics(genvmem, 1, d.tab)
       IN  /\ graphtab' = r.tab
           /\ diag' = r.err
           /\ pc' = IF r.err # "" THEN "exited" ELSE "kenv_user"
    /\ UNCHANGED <<envvars, keycmdtab, modevars, getcmdvars, parservars, gchar, screen>>

\* get_kenv: the bindings of the shell variable.
GetKenvUser ==
    /\ pc = "kenv_user"
    /\ LET r == IF kenvmem = NoString THEN [tab |-> <<>>, err |-> ""]
                ELSE read_keymap(kenvmem, 1, <<>>)
       IN  /\ keycmdtab' = r.tab
           /\ diag' = r.err
           /\ pc' = IF r.err # "" THEN "exited" ELSE "kenv_tcap"
    /\ UNCHANGED <<envvars, graphtab, modevars, getcmdvars, parservars, gchar, screen>>

\* get_kenv: the bindings kenv_termcap makes of the key capabilities.
GetKenvTermcap ==
    /\ pc = "kenv_tcap"
    /\ LET r == read_keymap(Mem(kenv_termcap(tcap), <<>>), 1, keycmdtab)
       IN  /\ keycmdtab' = r.tab
           /\ diag' = r.err
           /\ pc' = IF r.err # "" THEN "exited" ELSE "kenv_dflt"
    /\ UNCHANGED <<envvars, graphtab, modevars, getcmdvars, parservars, gchar, screen>>

\* get_kenv: the compiled-in bindings.
GetKenvDefault ==
    /\ pc = "kenv_dflt"
    /\ LET r == read_keymap(Mem(DKEYMAP, <<>>), 1, keycmdtab)
       IN  /\ keycmdtab' = r.tab
           /\ diag' = r.err
           /\ pc' = IF r.err # "" THEN "exited" ELSE "tty"
    /\ UNCHANGED <<envvars, graphtab, modevars, getcmdvars, parservars, gchar, screen>>

\* The rest of setup_term: the tty modes, the init strings, enter_mode.
SetupTty ==
    /\ pc = "tty"
    /\ LET em == enter_mode_out(termmode, SMNORMAL) IN
           /\ out' = <<Cap("term_is"), Cap("start_kp")>> \o em
           /\ emcall' = [from |-> termmode, to |-> SMNORMAL, out |-> em]
    /\ termmode' = enter_mode_mode(termmode, SMNORMAL)
    /\ last' = [op |-> "setup_term", arg |-> NoByte, from |-> termmode]
    /\ pc' = "running"
    /\ screen' = Replay(screen, out', 1).open
    /\ UNCHANGED <<envvars, keycmdtab, graphtab, getcmdvars, diag, parservars, gchar>>

\* putsym keeping only the three low bits of the symbol as its code.
putsym_symcode_narrow(symbol) == AndMask(symbol, 7)

\* symcode = symbol & SYMBOLM.
putsym_symcode(symbol) == AndMask(symbol, SYMBOLM)

\* putsym sending the symbol's bytes before it switches the mode.
putsym_out_first(em, bytes) == bytes \o em

\* What putsym sends: what enter_mode sent, then the symbol's bytes.
putsym_out(em, bytes) == em \o bytes

\* putsym(symbol).
PutSym(symbol) ==
    /\ pc = "running"
    /\ last' = [op |-> "putsym", arg |-> symbol, from |-> termmode]
    /\ IF ~graphic(symbol)
       THEN LET em == enter_mode_out(termmode, SMNORMAL) IN
            /\ emcall' = [from |-> termmode, to |-> SMNORMAL, out |-> em]
            /\ termmode' = enter_mode_mode(termmode, SMNORMAL)
            /\ out' = putsym_out(em, <<Byte(AndMask(symbol, CHARM))>>)
            /\ diag' = ""
       ELSE LET symcode == putsym_symcode(symbol) IN
            IF symcode >= NSYMC
            THEN /\ diag' = "Bad symbol code in putsym."
                 /\ out' = <<>>
                 /\ emcall' = NoCall
                 /\ termmode' = termmode
            ELSE LET gp == graphtab[symcode]
                     em == enter_mode_out(termmode, gp.s_mode)
                 IN  /\ emcall' = [from |-> termmode, to |-> gp.s_mode, out |-> em]
                     /\ termmode' = enter_mode_mode(termmode, gp.s_mode)
                     /\ out' = putsym_out(em, Bytes(gp.s_seq))
                     /\ diag' = IF gp.s_mode \in Modes \/ gp.s_mode = termmode
                                THEN "" ELSE "Bad terminal mode."
    /\ ret' = NoRet
    /\ gchar' = NoSym
    /\ screen' = Replay(screen, out', 1).open
    /\ UNCHANGED <<pc, envvars, keycmdtab, graphtab, keystroke, nchars, parservars>>

\* unset_term().
UnsetTerm ==
    /\ pc = "running"
    /\ LET em == enter_mode_out(termmode, SMNORMAL) IN
           /\ out' = em \o <<Cap("end_kp")>>
           /\ emcall' = [from |-> termmode, to |-> SMNORMAL, out |-> em]
    /\ termmode' = enter_mode_mode(termmode, SMNORMAL)
    /\ last' = [op |-> "unset_term", arg |-> NoByte, from |-> termmode]
    /\ ret' = NoRet
    /\ diag' = ""
    /\ gchar' = NoSym
    /\ screen' = Replay(screen, out', 1).open
    /\ UNCHANGED <<pc, envvars, keycmdtab, graphtab, keystroke, nchars, parservars>>

\* char2sym(pchar).
Char2Sym(pchar) ==
    /\ pc = "running"
    /\ gchar' = char2sym(pchar)
    /\ last' = [op |-> "char2sym", arg |-> pchar, from |-> termmode]
    /\ out' = <<>>
    /\ emcall' = NoCall
    /\ ret' = NoRet
    /\ diag' = ""
    /\ UNCHANGED <<pc, envvars, keycmdtab, graphtab, termmode, keystroke, nchars,
                   parservars, screen>>

\* getcmd is called: start_over, with nothing read yet.
GetcmdCall ==
    /\ pc = "running"
    /\ pc' = "getcmd"
    /\ keystroke' = <<>>
    /\ nchars' = 0
    /\ ret' = NoRet
    /\ out' = <<>>
    /\ emcall' = NoCall
    /\ diag' = ""
    /\ last' = [op |-> "getcmd", arg |-> NoByte, from |-> termmode]
    /\ gchar' = NoSym
    /\ UNCHANGED <<envvars, keycmdtab, graphtab, termmode, parservars, screen>>

\* One turn of the loop of getcmd: c = getchar() is stored and looked up.
\* Storing at or behind keystroke[10] is a write outside the array: the
\* program goes on with its variables intact, or it is stopped.
\* out keeps the first MaxBeeps alerts of the call: a call is followed beyond
\* them only once stdin has ended, where nothing but alerts can follow.
GetcmdRead(c, ub) ==
    /\ pc = "getcmd"
    /\ nchars < MaxChars
    /\ eof => c = EOF
    /\ LET n == nchars + 1
           ks == StoreChar(keystroke, nchars, c)
           step == getcmd_step(keycmdtab, ks, n, c)
       IN  /\ ub \in (IF n >= KEYSTROKELEN THEN {"intact", "stopped"} ELSE {"intact"})
           /\ last' = [last EXCEPT !.arg = c]
           /\ IF ub = "stopped"
              THEN /\ pc' = "crashed"
                   /\ keystroke' = ks
                   /\ nchars' = n
                   /\ UNCHANGED <<out, ret>>
              ELSE CASE step.do = "more" ->
                          /\ keystroke' = ks
                          /\ nchars' = n
                          /\ UNCHANGED <<pc, out, ret>>
                     [] step.do = "beep" ->
                          /\ Len(out) < MaxBeeps \/ eof
                          /\ out' = IF Len(out) < MaxBeeps
                                     THEN Append(out, Byte(BEL)) ELSE out
                          /\ keystroke' = <<>>
                          /\ nchars' = 0
                          /\ UNCHANGED <<pc, ret>>
                     [] step.do = "quote" ->
                          /\ pc' = "quote"
                          /\ keystroke' = ks
                          /\ nchars' = n
                          /\ UNCHANGED <<out, ret>>
                     [] step.do = "ret" ->
                          /\ pc' = "running"
                          /\ ret' = CmdValue(step.code, c)
                          /\ keystroke' = ks
                          /\ nchars' = n
                          /\ UNCHANGED out
    /\ eofreads' = IF eof THEN 1 - eofreads ELSE eofreads
    /\ UNCHANGED <<kenvmem, genvmem, tcap, eof, keycmdtab, graphtab, termmode,
                   emcall, diag, parservars, gchar, screen>>

\* getcmd after the quote byte: the next value read is the argument.
GetcmdQuoted(c) ==
    /\ pc = "quote"
    /\ eof => c = EOF
    /\ pc' = "running"
    /\ ret' = CmdValue(CINSERT, c)
    /\ last' = [last EXCEPT !.arg = c]
    /\ eofreads' = IF eof THEN 1 - eofreads ELSE eofreads
    /\ UNCHANGED <<kenvmem, genvmem, tcap, eof, keycmdtab, graphtab, termmode,
                   out, emcall, diag, keystroke, nchars, parservars, gchar, screen>>

Next ==
    \/ GetGenv
    \/ GetKenvUser
    \/ GetKenvTermcap
    \/ GetKenvDefault
    \/ SetupTty
    \/ \E symbol \in Symbols : PutSym(symbol)
    \/ UnsetTerm
    \/ \E pchar \in Chars : Char2Sym(pchar)
    \/ GetcmdCall
    \/ \E c \in Inputs, ub \in {"intact", "stopped"} : GetcmdRead(c, ub)
    \/ \E c \in Inputs : GetcmdQuoted(c)

Spec == Init /\ [][Next]_vars

-----------------------------------------------------------------------------
(* The parser on its own: read_varval decoding one value, a call of        *)
(* read_slashed at a time.                                                 *)

\* The characters of the values decoded.
ParseChars ==
    {Ord("\\"), Ord(":"), Ord("n"), Ord("t"), Ord("r"), Ord("f"), Ord("E"),
     Ord("1"), Ord("0"), Ord("8"), Ord("z")}

\* What the memory holds behind the terminator of the value.
ParseAfters == {<<>>, Txt(<<"1", ":", "z">>)}

ParseTexts == UNION {[1..n -> ParseChars] : n \in 0..MaxText}

InitParse ==
    /\ pc = "parse"
    /\ pmem \in {Mem(t, a) : t \in ParseTexts, a \in ParseAfters}
    /\ ppos = 1
    /\ pbuf = <<>>
    /\ pval = NoString
    /\ kenvmem = NoString
    /\ genvmem = NoString
    /\ tcap = NoKeys
    /\ keycmdtab = <<>>
    /\ graphtab = [i \in 0..(NSYMC - 1) |-> [s_mode |-> 0, s_seq |-> NoString]]
    /\ termmode = -1
    /\ out = <<>>
    /\ emcall = NoCall
    /\ last = [op |-> "none", arg |-> NoByte, from |-> -1]
    /\ keystroke = <<>>
    /\ nchars = 0
    /\ ret = NoRet
    /\ diag = ""
    /\ gchar = NoSym
    /\ screen = {}
    /\ eof = FALSE
    /\ eofreads = 0

\* One turn of the loop of read_varval: *bp = read_slashed(&var); bp++.
ReadVarvalStep ==
    /\ pc = "parse"
    /\ MoreValue(pmem, ppos)
    /\ LET r == read_slashed(pmem, ppos) IN
           /\ pbuf' = Append(pbuf, r.c)
           /\ ppos' = r.p
    /\ UNCHANGED <<pc, pmem, pval, envvars, keycmdtab, graphtab, modevars,
                   getcmdvars, diag, gchar, screen>>

\* The end of read_varval: *bp = 0; *valp = savestr(buf); *strp = var.
ReadVarvalEnd ==
    /\ pc = "parse"
    /\ ~MoreValue(pmem, ppos)
    /\ pval' = savestr(pbuf)
    /\ pc' = "parsed"
    /\ UNCHANGED <<pmem, ppos, pbuf, envvars, keycmdtab, graphtab, modevars,
                   getcmdvars, diag, gchar, screen>>

NextParse == ReadVarvalStep \/ ReadVarvalEnd

SpecParse == InitParse /\ [][NextParse]_vars

-----------------------------------------------------------------------------
(* char2sym on its own: every byte and the end-of-input value, classified  *)
(* once setup_term has returned (no shell variable set, no key capability). *)

AllChars == (-1)..255

InitSym ==
    /\ pc = "running"
    /\ kenvmem = NoString
    /\ genvmem = NoString
    /\ tcap = NoKeys
    /\ keycmdtab = read_keymap(Mem(DKEYMAP, <<>>), 1, <<>>).tab
    /\ graphtab = read_graphics(Mem(DGRAPHICS, <<>>), 1,
                     [i \in 0..(NSYMC - 1) |-> [s_mode |-> 0, s_seq |-> NoString]]).tab
    /\ termmode = SMNORMAL
    /\ out = <<Cap("term_is"), Cap("start_kp"), Cap("end_so"), Cap("end_alt")>>
    /\ emcall = [from |-> -1, to |-> SMNORMAL,
                 out |-> <<Cap("end_so"), Cap("end_alt")>>]
    /\ last = [op |-> "setup_term", arg |-> NoByte, from |-> -1]
    /\ keystroke = <<>>
    /\ nchars = 0
    /\ ret = NoRet
    /\ diag = ""
    /\ pmem = <<>>
    /\ ppos = 1
    /\ pbuf = <<>>
    /\ pval = NoString
    /\ gchar = NoSym
    /\ screen = {}
    /\ eof = FALSE
    /\ eofreads = 0

NextSym == \E pchar \in AllChars : Char2Sym(pchar)

SpecSym == InitSym /\ [][NextSym]_vars

-----------------------------------------------------------------------------
(* getcmd at the end of stdin: the program is set up and calls getcmd      *)
(* while stdin may end, after which getchar() yields EOF and nothing else. *)

\* stdin ends. getchar() is the program's only reader of stdin, so that an
\* end before setup_term has returned shows no earlier than one after it.
InputEnds ==
    /\ pc \in {"running", "getcmd", "quote"}
    /\ ~eof
    /\ eof' = TRUE
    /\ UNCHANGED <<pc, kenvmem, genvmem, tcap, eofreads, keycmdtab, graphtab,
                   modevars, getcmdvars, diag, parservars, gchar, screen>>

InitEof ==
    /\ Init
    /\ genvmem = NoString
    /\ screen = {}

NextEof ==
    \/ GetGenv
    \/ GetKenvUser
    \/ GetKenvTermcap
    \/ GetKenvDefault
    \/ SetupTty
    \/ GetcmdCall
    \/ \E c \in Inputs, ub \in {"intact", "stopped"} : GetcmdRead(c, ub)
    \/ \E c \in Inputs : GetcmdQuoted(c)
    \/ InputEnds

\* getchar() returns at once when stdin has ended and nothing else holds
\* getcmd up: a turn of its loop that can be taken is taken.
SpecEof ==
    /\ InitEof
    /\ [][NextEof]_vars
    /\ WF_vars(\E c \in Inputs, ub \in {"intact", "stopped"} : GetcmdRead(c, ub))
    /\ WF_vars(\E c \in Inputs : GetcmdQuoted(c))

-----------------------------------------------------------------------------
(* The display-mode machine: claims C5, C6 and C7. *)

\* The end and start sequences of a mode, as the specification names them.
EndOf(mode) ==
    CASE mode = SMGRAPHIC -> <<Cap("end_alt")>>
      [] mode = SMSTANDOUT -> <<Cap("end_so")>>
      [] OTHER -> <<>>
StartOf(mode) ==
    CASE mode = SMGRAPHIC -> <<Cap("start_alt")>>
      [] mode = SMSTANDOUT -> <<Cap("start_so")>>
      [] OTHER -> <<>>

IsCap(o) == "cap" \in DOMAIN o

\* The mode a symbol is displayed in, for a literal byte or a meta-symbol of
\* the table.
InRange(symbol) == graphic(symbol) /\ symbol - SYMBOLC < NSYMC
DisplayMode(symbol) ==
    IF graphic(symbol) THEN graphtab[symbol - SYMBOLC].s_mode ELSE SMNORMAL

\* C5: a call enter_mode(target) made in mode c, both among Normal, Graphic
\* and Standout and different, sends exactly end(c) then start(target), and
\* afterwards the current mode is target.
C5_Transition ==
    (/\ emcall # NoCall
     /\ emcall.from \in Modes
     /\ emcall.to \in Modes
     /\ emcall.from # emcall.to)
    => /\ emcall.out = EndOf(emcall.from) \o StartOf(emcall.to)
       /\ termmode = emcall.to

C5_Witness ==
    /\ emcall # NoCall
    /\ emcall.from = SMGRAPHIC
    /\ emcall.to = SMSTANDOUT
    /\ emcall.out = <<Cap("end_alt"), Cap("start_so")>>
    /\ termmode = SMSTANDOUT

\* C6: enter_mode(target) called in mode target sends nothing and leaves the
\* mode as it is; so a putsym of a symbol displayed in the mode the terminal
\* is already in sends the symbol's bytes and no mode sequence.
C6_NoRedundantSwitch ==
    /\ (emcall # NoCall /\ emcall.from = emcall.to)
          => (emcall.out = <<>> /\ termmode = emcall.from)
    /\ (/\ last.op = "putsym"
        /\ (~graphic(last.arg) \/ InRange(last.arg))
        /\ DisplayMode(last.arg) = last.from)
          => (/\ \A i \in 1..Len(out) : ~IsCap(out[i])
              /\ termmode = last.from)

C6_Witness ==
    /\ last.op = "putsym"
    /\ last.arg = SVERTBAR
    /\ last.from = SMGRAPHIC
    /\ emcall # NoCall
    /\ emcall.to = SMGRAPHIC
    /\ out = Bytes(graphtab[SVERTBAR - SYMBOLC].s_seq)

\* C7 as stated: every mode enter_mode finds on entry is Normal, Graphic or
\* Standout, so its branch for any other mode is never taken.
C7_Original == emcall # NoCall => emcall.from \in Modes

\* The modes of the graphics table.
TableModes == {graphtab[i].s_mode : i \in 0..(NSYMC - 1)}

\* C7 (amended): termmode is -1 until setup_term calls enter_mode(SMNORMAL);
\* that call finds -1 and takes the branch that sends end-standout and
\* end-alt-charset.  Once setup_term has returned the mode is Normal or the
\* mode of a table entry, so enter_mode finds a mode outside the three again
\* only after putsym displayed a symbol whose table entry holds such a mode.
C7_ModeClosed ==
    /\ (pc \in {"start", "genv", "kenv_user", "kenv_tcap", "kenv_dflt", "tty"})
          => (termmode = -1 /\ emcall = NoCall)
    /\ (pc \in {"running", "getcmd", "quote", "crashed"})
          => termmode \in ({SMNORMAL} \cup TableModes)
    /\ (emcall # NoCall /\ emcall.from \notin Modes)
          => \/ /\ last.op = "setup_term"
                /\ emcall.from = -1
                /\ emcall.out = <<Cap("end_so"), Cap("end_alt")>>
                /\ termmode = SMNORMAL
             \/ /\ last.op # "setup_term"
                /\ emcall.from \in TableModes

C7_Witness ==
    /\ pc = "running"
    /\ last.op = "setup_term"
    /\ emcall.from = -1
    /\ emcall.out = <<Cap("end_so"), Cap("end_alt")>>
    /\ termmode = SMNORMAL

-----------------------------------------------------------------------------
(* The keystroke buffer and the command value: claims C8 and C9. *)

\* C8 as stated: the bytes held in keystroke[] never exceed 9, so that they
\* fit the 10 bytes of the array with their terminator.
C8_Original == nchars <= KEYSTROKELEN - 1

\* The codes a command value can carry.
CommandCodes == {cmdnames[i].value : i \in 1..Len(cmdnames)}

\* C9: the value getcmd returns splits into a command code and an argument
\* byte that do not overlap, and the argument is the last value read, as a
\* byte.
C9_CommandValue ==
    ret # NoRet =>
        LET code == ret \div Pow2(CMDSHIFT)
            arg == ret % Pow2(CMDSHIFT)
        IN  /\ arg = ToChar(last.arg)
            /\ arg \in 0..255
            /\ code \in CommandCodes
            /\ \/ code = CINSERT
               \/ \E i \in 1..Len(keycmdtab) :
                     /\ keycmdtab[i].c_seq = keystroke
                     /\ keycmdtab[i].c_code = code
            /\ BitAnd(code * Pow2(CMDSHIFT), arg) = 0
            /\ ret = code * Pow2(CMDSHIFT) + arg

\* getcmd returned the command of a binding, and returned a quoted byte.
C9_Witness ==
    /\ pc = "running"
    /\ ret = CGO_DOWN * 256 + 66
    /\ last.arg = 66
    /\ keystroke = <<ESC, 66>>

-----------------------------------------------------------------------------
(* The keystroke matcher: claims C1, C2 and C3.  A step that leaves        *)
(* pc = "getcmd" is one turn of the loop; the value it read is last'.arg.  *)

\* Some binding has this sequence; this sequence starts a longer binding.
Bound(seq) == \E i \in 1..Len(keycmdtab) : keycmdtab[i].c_seq = seq
StrictPrefix(seq) ==
    \E i \in 1..Len(keycmdtab) :
        /\ Len(seq) < Len(keycmdtab[i].c_seq)
        /\ SubSeq(keycmdtab[i].c_seq, 1, Len(seq)) = seq

Byte255 == 0..255

\* The bytes read since the last reset hold no 0, so the string in
\* keystroke[] is all of them.
NoNulIn == nchars = Len(keystroke)

\* The bytes read since the last reset, the byte just read included, when
\* none of them is 0.
NewBuf == Append(keystroke, last'.arg)

\* The alert is sounded once and matching starts over with an empty buffer,
\* nothing being returned.
AlertAndRestart ==
    /\ out' = Append(out, Byte(BEL))
    /\ keystroke' = <<>>
    /\ nchars' = 0
    /\ pc' = "getcmd"
    /\ ret' = NoRet

\* C1 as stated: when the bytes read since the last reset are the sequence
\* of a binding, getcmd returns that binding's code with the last byte as
\* argument, and the next call starts from an empty buffer; while they are
\* no binding's sequence but start one, nothing is returned, no alert is
\* sounded and the byte is kept.
C1_Original ==
    /\ [][(pc = "getcmd" /\ last'.arg \in Byte255 /\ NoNulIn /\ last'.arg # NUL)
             => /\ Bound(NewBuf)
                   => /\ pc' = "running"
                      /\ \E i \in 1..Len(keycmdtab) :
                            /\ keycmdtab[i].c_seq = NewBuf
                            /\ ret' = keycmdtab[i].c_code * 256 + last'.arg
                /\ (~Bound(NewBuf) /\ StrictPrefix(NewBuf))
                   => /\ pc' = "getcmd"
                      /\ ret' = NoRet
                      /\ out' = out
                      /\ keystroke' = NewBuf
                      /\ nchars' = nchars + 1]_vars
    /\ [][(pc = "running" /\ pc' = "getcmd")
             => (keystroke' = <<>> /\ nchars' = 0)]_vars

\* C1 for keystrokes that fit the array: the same, while the byte read is
\* not the tenth of its keystroke.
C1_Fitting ==
    [][(pc = "getcmd" /\ last'.arg \in Byte255 /\ NoNulIn /\ last'.arg # NUL
          /\ nchars + 1 < KEYSTROKELEN)
             => /\ Bound(NewBuf)
                   => /\ pc' = "running"
                      /\ \E i \in 1..Len(keycmdtab) :
                            /\ keycmdtab[i].c_seq = NewBuf
                            /\ ret' = keycmdtab[i].c_code * 256 + last'.arg
                /\ (~Bound(NewBuf) /\ StrictPrefix(NewBuf))
                   => /\ pc' = "getcmd"
                      /\ ret' = NoRet
                      /\ out' = out
                      /\ keystroke' = NewBuf
                      /\ nchars' = nchars + 1]_vars

\* C2 as stated: when the buffer, the byte just read included, has two
\* bytes or more and neither is a binding's sequence nor starts one, the
\* alert is sounded once, the whole buffer is dropped and nothing is
\* returned.
C2_Original ==
    [][(/\ pc = "getcmd"
        /\ last'.arg \in Byte255
        /\ nchars + 1 >= 2
        /\ ~(/\ NoNulIn
             /\ last'.arg # NUL
             /\ (Bound(NewBuf) \/ StrictPrefix(NewBuf))))
          => AlertAndRestart]_vars

\* C3 as stated: a first byte b that is no binding's sequence and starts
\* none: the quote byte makes the next byte n the argument of self-insert,
\* whatever n is; a printable byte, newline or tab is self-inserted; any
\* other byte sounds the alert and is dropped.
C3_Original ==
    /\ [][(/\ pc = "getcmd"
           /\ nchars = 0
           /\ last'.arg \in Byte255
           /\ ~Bound(<<last'.arg>>)
           /\ ~StrictPrefix(<<last'.arg>>))
             => IF last'.arg = QUOTEC
                THEN pc' = "quote" /\ out' = out /\ ret' = NoRet
                ELSE IF printable(last'.arg) \/ last'.arg = LINEFEED \/ last'.arg = TAB
                THEN pc' = "running" /\ ret' = CINSERT * 256 + last'.arg /\ out' = out
                ELSE AlertAndRestart]_vars
    /\ [][(pc = "quote" /\ last'.arg \in Byte255)
             => (pc' = "running" /\ ret' = CINSERT * 256 + last'.arg /\ out' = out)]_vars

-----------------------------------------------------------------------------
(* What the specification says a configuration string holds, read off the  *)
(* text without the parser: the entries between unescaped colons, and the  *)
(* escape table.                                                           *)

OctalDigits == {Ord("0"), Ord("1"), Ord("2"), Ord("3"), Ord("4"), Ord("5"),
                Ord("6"), Ord("7")}

\* The index of the first unescaped colon of t at or after i, or Len(t) + 1.
RECURSIVE ValueEnd(_, _)
ValueEnd(t, i) ==
    IF i > Len(t) THEN Len(t) + 1
    ELSE IF t[i] = COLON THEN i
    ELSE IF t[i] = BACKSLASH THEN ValueEnd(t, i + 2)
    ELSE ValueEnd(t, i + 1)

\* The number of octal digits, three at most, of v from index i.
OctalRun(v, i) ==
    IF i > Len(v) \/ v[i] \notin OctalDigits THEN 0
    ELSE IF i + 1 > Len(v) \/ v[i + 1] \notin OctalDigits THEN 1
    ELSE IF i + 2 > Len(v) \/ v[i + 2] \notin OctalDigits THEN 2
    ELSE 3

RECURSIVE OctalValue(_, _, _)
OctalValue(v, i, n) ==
    IF n = 0 THEN 0
    ELSE 8 * OctalValue(v, i, n - 1) + (v[i + n - 1] - Ord("0"))

\* The bytes a value stands for, by the escape table, from index i.
RECURSIVE ClaimDecode(_, _)
ClaimDecode(v, i) ==
    IF i > Len(v) THEN <<>>
    ELSE IF v[i] # BACKSLASH THEN <<v[i]>> \o ClaimDecode(v, i + 1)
    ELSE IF i + 1 > Len(v) THEN <<>>
    ELSE LET c == v[i + 1] IN
         CASE c = Ord("n") -> <<10>> \o ClaimDecode(v, i + 2)
           [] c = Ord("t") -> <<9>> \o ClaimDecode(v, i + 2)
           [] c = Ord("r") -> <<13>> \o ClaimDecode(v, i + 2)
           [] c = Ord("f") -> <<12>> \o ClaimDecode(v, i + 2)
           [] c = Ord("E") -> <<27>> \o ClaimDecode(v, i + 2)
           [] c \in OctalDigits ->
                LET n == OctalRun(v, i + 1) IN
                <<OctalValue(v, i + 1, n)>> \o ClaimDecode(v, i + 1 + n)
           [] OTHER -> <<c>> \o ClaimDecode(v, i + 2)

\* The code of the command whose mnemonic is at index i of t.
ClaimCode(t, i) ==
    LET hit == CHOOSE k \in 1..Len(cmdnames) : cmdnames[k].label = SubSeq(t, i, i + 1)
    IN  cmdnames[hit].value

\* The index of the first '=' of t at or after i, or 0.
RECURSIVE ClaimEq(_, _)
ClaimEq(t, i) ==
    IF i > Len(t) THEN 0
    ELSE IF t[i] = EQUALS THEN i
    ELSE ClaimEq(t, i + 1)

\* The bindings of a keymap text label=value:label=value..., in text order.
RECURSIVE ClaimEntries(_, _)
ClaimEntries(t, i) ==
    IF i > Len(t) THEN <<>>
    ELSE IF t[i] = COLON THEN ClaimEntries(t, i + 1)
    ELSE LET v == ClaimEq(t, i) + 1
             e == ValueEnd(t, v)
         IN  <<[c_code |-> ClaimCode(t, i),
                c_seq |-> ClaimDecode(SubSeq(t, v, e - 1), 1)]>>
             \o ClaimEntries(t, e)

-----------------------------------------------------------------------------
(* The layers of the binding table: claim C4. *)

UserLayer == IF kenvmem = NoString THEN <<>> ELSE ClaimEntries(CStrAt(kenvmem, 1), 1)

CapBinding(cap, code) ==
    IF cap = NoString THEN <<>> ELSE <<[c_code |-> code, c_seq |-> cap]>>

ProviderLayer ==
    CapBinding(tcap.up, CGO_UP) \o CapBinding(tcap.down, CGO_DOWN)
    \o CapBinding(tcap.left, CGO_LEFT) \o CapBinding(tcap.right, CGO_RIGHT)
    \o CapBinding(tcap.f1, CPREVBLOCK) \o CapBinding(tcap.f2, CNEXTBLOCK)
    \o CapBinding(tcap.f3, CACCEPT) \o CapBinding(tcap.f4, CJUMPCMD)

DefaultLayer == ClaimEntries(DKEYMAP, 1)

InLayer(layer, seq) == \E i \in 1..Len(layer) : layer[i].c_seq = seq
FirstCode(layer, seq) ==
    layer[CHOOSE i \in 1..Len(layer) :
             /\ layer[i].c_seq = seq
             /\ \A j \in 1..(i - 1) : layer[j].c_seq # seq].c_code

\* The command of a bound sequence, by precedence of the layers.
LayeredCode(seq) ==
    IF InLayer(UserLayer, seq) THEN FirstCode(UserLayer, seq)
    ELSE IF InLayer(ProviderLayer, seq) THEN FirstCode(ProviderLayer, seq)
    ELSE FirstCode(DefaultLayer, seq)

C4_Table ==
    /\ pc = "kenv_tcap" => keycmdtab = UserLayer
    /\ pc = "kenv_dflt" => keycmdtab = UserLayer \o ProviderLayer
    /\ pc \in {"tty", "running", "getcmd", "quote", "crashed"}
          => keycmdtab = UserLayer \o ProviderLayer \o DefaultLayer
    /\ (pc = "running" /\ ret # NoRet /\ Bound(keystroke))
          => ret \div 256 = LayeredCode(keystroke)

C4_Kept ==
    \A i \in 1..Len(keycmdtab) :
        i <= Len(keycmdtab') /\ keycmdtab'[i] = keycmdtab[i]

-----------------------------------------------------------------------------
(* The decoding of a value: claim C10, on the parser's own runs. *)

\* The text read_varval was given, and its value: the text before its first
\* unescaped colon.
ParseText == CStrAt(pmem, 1)
ParseValue == SubSeq(ParseText, 1, ValueEnd(ParseText, 1) - 1)

\* The value ends in a backslash that escapes nothing.
RECURSIVE Dangling(_, _)
Dangling(v, i) ==
    IF i > Len(v) THEN FALSE
    ELSE IF v[i] # BACKSLASH THEN Dangling(v, i + 1)
    ELSE IF i = Len(v) THEN TRUE
    ELSE Dangling(v, i + 2)

\* C10 as stated: read_varval decodes the value up to its first unescaped
\* colon or the end of the string, by the escape table, and the string
\* stored is the decoded bytes in order.
C10_Original ==
    (pc = "parsed" /\ ~Dangling(ParseValue, 1))
        => /\ pval = ClaimDecode(ParseValue, 1)
           /\ ppos = ValueEnd(ParseText, 1)

-----------------------------------------------------------------------------
(* The parse loop of a configuration string: claim C11. *)

\* The mnemonics of a label table that start the text of t from index i.
ClaimHits(labeltab, t, i) ==
    {k \in 1..Len(labeltab) :
        /\ i + Len(labeltab[k].label) - 1 <= Len(t)
        /\ SubSeq(t, i, i + Len(labeltab[k].label) - 1) = labeltab[k].label}

\* The parse of a text against a label table, token by token as the
\* specification has it: the entries produced in text order, and how the
\* parse ends: "ok" at the end of the text, "error" at a token no mnemonic
\* starts, "unsaid" at a token the specification gives no rule for (a
\* mnemonic that no '=' follows, a value ending in a lone backslash).
RECURSIVE ClaimParse(_, _, _)
ClaimParse(labeltab, t, i) ==
    IF i > Len(t) THEN [entries |-> <<>>, res |-> "ok"]
    ELSE IF t[i] = COLON THEN ClaimParse(labeltab, t, i + 1)
    ELSE IF ClaimHits(labeltab, t, i) = {} THEN [entries |-> <<>>, res |-> "error"]
    ELSE IF ClaimEq(t, i) = 0 THEN [entries |-> <<>>, res |-> "unsaid"]
    ELSE LET hits == ClaimHits(labeltab, t, i)
             k == CHOOSE h \in hits : \A j \in hits : h <= j
             v == ClaimEq(t, i) + 1
             e == ValueEnd(t, v)
             value == SubSeq(t, v, e - 1)
         IN  IF Dangling(value, 1) THEN [entries |-> <<>>, res |-> "unsaid"]
             ELSE LET rest == ClaimParse(labeltab, t, e) IN
                  [entries |-> <<[code |-> labeltab[k].value,
                                  bytes |-> ClaimDecode(value, 1)]>> \o rest.entries,
                   res |-> rest.res]

\* The entries of the binding table, as (enumValue, decodedBytes) pairs.
TableEntries == [i \in 1..Len(keycmdtab) |->
                    [code |-> keycmdtab[i].c_code, bytes |-> keycmdtab[i].c_seq]]

KeymapLabelDiag == "Can't parse label in read_keymap."

\* C11 as stated, for the keymap string of the shell variable: read_keymap
\* ends with success at the end of the text, having produced one entry per
\* token in text order, and exits with its diagnostic at the first token
\* that no mnemonic starts, having produced the entries before it.
C11_Original ==
    LET c == ClaimParse(cmdnames, CStrAt(kenvmem, 1), 1) IN
    (kenvmem # NoString /\ c.res # "unsaid" /\ pc \notin {"start", "kenv_user"}
        /\ ~(pc = "exited" /\ diag # KeymapLabelDiag))
    => /\ c.res = "ok" => (pc # "exited" /\ SubSeq(TableEntries, 1, Len(c.entries)) = c.entries)
       /\ c.res = "error" => (pc = "exited" /\ TableEntries = c.entries)

-----------------------------------------------------------------------------
(* The graphics string: claim C12. *)

\* The graphics table before get_genv.
EmptyGraphtab == [i \in 0..(NSYMC - 1) |-> [s_mode |-> 0, s_seq |-> NoString]]

\* The display mode and the output sequence a value stands for: \N, \G or
\* \S and the rest; the whole value in Normal mode when it begins with no
\* backslash; "bad" for a backslash followed by anything else or by nothing.
ClaimMarker(value) ==
    IF Len(value) >= 1 /\ value[1] = BACKSLASH
    THEN IF Len(value) >= 2 /\ value[2] \in Modes
         THEN [res |-> "ok", mode |-> value[2], rest |-> SubSeq(value, 3, Len(value))]
         ELSE [res |-> "bad", mode |-> 0, rest |-> <<>>]
    ELSE [res |-> "ok", mode |-> SMNORMAL, rest |-> value]

\* The graphics table a text makes of tab, entry by entry, and how the
\* build ends: "ok", "error" (unrecognized label or marker: the table is
\* the one before that entry), or "unsaid".
RECURSIVE ClaimGraphics(_, _, _)
ClaimGraphics(t, i, tab) ==
    IF i > Len(t) THEN [tab |-> tab, res |-> "ok"]
    ELSE IF t[i] = COLON THEN ClaimGraphics(t, i + 1, tab)
    ELSE IF ClaimHits(symnames, t, i) = {} THEN [tab |-> tab, res |-> "error"]
    ELSE IF ClaimEq(t, i) = 0 THEN [tab |-> tab, res |-> "unsaid"]
    ELSE LET hits == ClaimHits(symnames, t, i)
             k == CHOOSE h \in hits : \A j \in hits : h <= j
             v == ClaimEq(t, i) + 1
             e == ValueEnd(t, v)
             m == ClaimMarker(SubSeq(t, v, e - 1))
         IN  IF m.res = "bad" THEN [tab |-> tab, res |-> "error"]
             ELSE IF Dangling(m.rest, 1) THEN [tab |-> tab, res |-> "unsaid"]
             ELSE ClaimGraphics(t, e,
                     [tab EXCEPT ![symnames[k].value - SYMBOLC] =
                         [s_mode |-> m.mode, s_seq |-> ClaimDecode(m.rest, 1)]])

GraphicsDiags == {"Can't parse label in GRAPHICSMAP.", "GRAPHICSMAP value has bad mode."}

\* C12 as stated: read_graphics sets each entry's slot to the mode of its
\* marker (Normal without a marker) and the rest of the value, and aborts
\* startup with a diagnostic at an unrecognized label or marker, a backslash
\* at the end of the string included; after a build that succeeded every
\* slot holds Normal, Graphic or Standout.
C12_Original ==
    LET d == ClaimGraphics(DGRAPHICS, 1, EmptyGraphtab)
        c == IF genvmem = NoString THEN d
             ELSE ClaimGraphics(CStrAt(genvmem, 1), 1, d.tab)
    IN  (pc # "start" /\ c.res # "unsaid")
        => /\ c.res = "ok" => /\ graphtab = c.tab
                              /\ pc = "exited" => diag \notin GraphicsDiags
           /\ c.res = "error" => (pc = "exited" /\ diag \in GraphicsDiags)
           /\ pc \in {"kenv_user", "kenv_tcap", "kenv_dflt", "tty", "running",
                      "getcmd", "quote", "crashed"}
                 => \A i \in 0..(NSYMC - 1) : graphtab[i].s_mode \in Modes

-----------------------------------------------------------------------------
(* An aborted table construction: claim C13. *)

\* Nothing has looked a key or a symbol up, and nothing was sent.
NothingUsed ==
    /\ termmode = -1
    /\ out = <<>>
    /\ emcall = NoCall
    /\ last.op = "none"
    /\ ret = NoRet
    /\ keystroke = <<>>
    /\ nchars = 0

\* At an abort on a bad entry the tables are what the entries before it
\* made them: the slot of the bad entry is as it was.
AbortedTables ==
    LET d == ClaimGraphics(DGRAPHICS, 1, EmptyGraphtab)
        g == IF genvmem = NoString THEN d
             ELSE ClaimGraphics(CStrAt(genvmem, 1), 1, d.tab)
        k == IF kenvmem = NoString THEN [entries |-> <<>>, res |-> "ok"]
             ELSE ClaimParse(cmdnames, CStrAt(kenvmem, 1), 1)
    IN  /\ (pc = "exited" /\ diag \in GraphicsDiags /\ g.res # "ok")
              => (graphtab = g.tab /\ keycmdtab = <<>>)
        /\ (pc = "exited" /\ diag = KeymapLabelDiag /\ k.res # "ok")
              => TableEntries = k.entries

\* C13: when the construction of a table aborts on a bad entry, the slot
\* that entry addresses is as it was before the entry was read; no key and
\* no symbol is looked up from the start of the construction to the abort,
\* and none after it: the process has exited, the tty untouched.
C13_AbortClean ==
    /\ [](pc \in {"start", "kenv_user", "kenv_tcap", "kenv_dflt", "tty", "exited"}
              => NothingUsed)
    /\ []AbortedTables
    /\ [][pc # "exited"]_vars

\* Startup aborted at a bad marker in the second entry of the graphics
\* string: the first entry's slot is updated, the second's is the default.
C13_Witness ==
    /\ pc = "exited"
    /\ diag = "GRAPHICSMAP value has bad mode."
    /\ graphtab[SHORZBAR - SYMBOLC] = [s_mode |-> SMSTANDOUT, s_seq |-> <<Ord("-")>>]
    /\ graphtab[SVERTBAR - SYMBOLC] = [s_mode |-> SMGRAPHIC, s_seq |-> <<Ord("x")>>]
    /\ NothingUsed

-----------------------------------------------------------------------------
(* The classification of a character: claim C14. *)

\* The specification's rule, in its order.
ClaimClassify(b) ==
    IF b >= 32 /\ b <= 126 THEN b
    ELSE IF b = EOF THEN SUNKNOWN
    ELSE IF b = 10 THEN SLINEFEED
    ELSE IF b = 13 THEN SCARETURN
    ELSE IF b = 12 THEN SFORMFEED
    ELSE IF b = 9 THEN STAB
    ELSE IF b >= 128 THEN SNOTASCII
    ELSE SCONTCODE

\* C14: for every byte and for the end-of-input value char2sym returns the
\* symbol of the specification's ordered rule; testing non-ASCII before
\* newline, carriage return, form feed and tab changes no result.
C14_Classify ==
    last.op = "char2sym"
        => /\ last.arg \in AllChars
           /\ gchar = ClaimClassify(last.arg)
           /\ gchar \in (32..126) \cup {STAB, SNOTASCII, SLINEFEED, SCARETURN,
                                         SFORMFEED, SCONTCODE, SUNKNOWN}

\* The end-of-input value was classified as Unknown.
C14_Witness ==
    /\ last.op = "char2sym"
    /\ last.arg = EOF
    /\ gchar = SUNKNOWN

-----------------------------------------------------------------------------
(* The display of a symbol: claim C15. *)

\* The bytes that display a symbol: the byte itself, or the sequence of the
\* meta-symbol's table entry.
DisplayBytes(symbol) ==
    IF graphic(symbol) THEN Bytes(graphtab[symbol - SYMBOLC].s_seq)
    ELSE <<Byte(symbol)>>

\* C15: putsym of a literal byte brings the mode to Normal and sends the
\* byte, nothing else when the mode was Normal; putsym of a meta-symbol of
\* the table brings the mode to its entry's mode and sends its entry's
\* sequence; what the mode switch sends comes before the symbol's bytes,
\* and afterwards the mode is the one the symbol is displayed in.
C15_Display ==
    (last.op = "putsym" /\ (~graphic(last.arg) \/ InRange(last.arg)))
    => /\ emcall # NoCall
       /\ emcall.from = last.from
       /\ emcall.to = DisplayMode(last.arg)
       /\ \A i \in 1..Len(emcall.out) : IsCap(emcall.out[i])
       /\ out = emcall.out \o DisplayBytes(last.arg)
       /\ \A i \in 1..Len(DisplayBytes(last.arg)) : ~IsCap(DisplayBytes(last.arg)[i])
       /\ termmode = DisplayMode(last.arg)
       /\ (~graphic(last.arg) /\ last.from = SMNORMAL) => out = <<Byte(last.arg)>>

\* A meta-symbol shown in Standout was displayed while the mode was Graphic.
C15_Witness ==
    /\ last.op = "putsym"
    /\ last.arg = SNOTASCII
    /\ last.from = SMGRAPHIC
    /\ out = <<Cap("end_alt"), Cap("start_so"), Byte(Ord("#"))>>
    /\ termmode = SMSTANDOUT

-----------------------------------------------------------------------------
(* A meta-symbol outside the table: claim C16. *)

\* C16: putsym of a meta-symbol whose code is outside the graphics table
\* reports a diagnostic and does nothing else: nothing is sent, the mode and
\* the table are as they were, no slot is looked at, and the program goes
\* on.
C16_BadSymbol ==
    /\ [](last.op = "putsym" /\ graphic(last.arg) /\ ~InRange(last.arg)
             => /\ diag = "Bad symbol code in putsym."
                /\ out = <<>>
                /\ emcall = NoCall
                /\ termmode = last.from
                /\ pc = "running")
    /\ [][(pc = "running" /\ last'.op = "putsym"
            /\ graphic(last'.arg) /\ ~InRange(last'.arg))
             => /\ graphtab' = graphtab
                /\ termmode' = termmode
                /\ keycmdtab' = keycmdtab
                /\ pc' = pc]_vars

\* putsym was called in Graphic mode with the first code behind the table.
C16_Witness ==
    /\ last.op = "putsym"
    /\ last.arg = SYMBOLC + NSYMC
    /\ last.from = SMGRAPHIC
    /\ termmode = SMGRAPHIC
    /\ diag = "Bad symbol code in putsym."
    /\ out = <<>>

-----------------------------------------------------------------------------
(* What the running program leaves alone: claim C17. *)

\* C17: once setup_term has returned, no call of getcmd, putsym, char2sym
\* or unset_term changes the binding table, the graphics table or the
\* capability strings; the mode changes only in a call of enter_mode, to
\* the mode that call was asked for; and getcmd, its alerts included, and
\* char2sym leave the mode as it is.
C17_Frame ==
    [][(pc \in {"running", "getcmd", "quote"})
         => (/\ keycmdtab' = keycmdtab
             /\ graphtab' = graphtab
             /\ tcap' = tcap
             /\ (termmode' # termmode)
                   => (/\ emcall' # NoCall
                       /\ emcall'.from = termmode
                       /\ emcall'.to = termmode'
                       /\ last'.op \in {"putsym", "unset_term"})
             /\ (pc \in {"getcmd", "quote"} \/ last'.op \in {"getcmd", "char2sym"})
                   => (termmode' = termmode))]_vars

\* getcmd sounded the alert while the terminal was in Standout mode.
C17_Witness ==
    /\ pc = "getcmd"
    /\ termmode = SMSTANDOUT
    /\ out = <<Byte(BEL)>>
    /\ keycmdtab # <<>>

-----------------------------------------------------------------------------
(* The tracked mode and the terminal: claim C18. *)

\* The modes that are on when the terminal is in a mode.
OpenOf(mode) ==
    CASE mode = SMGRAPHIC -> {SMGRAPHIC}
      [] mode = SMSTANDOUT -> {SMSTANDOUT}
      [] OTHER -> {}

Returned == pc \in {"running", "getcmd", "quote", "crashed"}

\* A step that sends mode sequences: setup_term, putsym or unset_term.
Sends == pc \in {"tty", "running"} /\ last'.op \in {"setup_term", "putsym", "unset_term"}

\* C18 as stated: from setup_term on the tracked mode is one of the three
\* and is the mode of the terminal; at most one of Graphic and Standout is
\* on; no mode is started while one is on; and no end sequence is sent for
\* a mode that is not on.
C18_Original ==
    /\ [](Returned => (termmode \in Modes /\ screen = OpenOf(termmode)))
    /\ [][Sends => (~Replay(screen, out', 1).started_on
                     /\ ~Replay(screen, out', 1).ended_off)]_vars

\* C18 (amended): once setup_term has returned the terminal is in the
\* tracked mode when that is Normal, Graphic or Standout, and in Normal
\* mode when the tracked mode is any other value; at most one of Graphic
\* and Standout is on, and no mode is started while one is on.  An end
\* sequence for a mode that is not on is sent only by the branch of
\* enter_mode for an unrecognized mode, which sends end-standout and
\* end-alt-charset: in setup_term, where the tracked mode is -1 whatever
\* the terminal's mode, and after putsym displayed a symbol whose table
\* entry holds a mode outside the three.
C18_Agreement ==
    /\ [](Returned => (screen = OpenOf(termmode) /\ Cardinality(screen) <= 1))
    /\ [][Sends => /\ ~Replay(screen, out', 1).started_on
                    /\ Replay(screen, out', 1).ended_off
                          => (/\ emcall' # NoCall
                              /\ emcall'.from \notin Modes
                              /\ emcall'.from = termmode
                              /\ \/ last'.op = "setup_term"
                                 \/ termmode \in TableModes)]_vars

\* putsym of a symbol the user's string shows in Standout, called in
\* Graphic mode, left the terminal and the tracked mode in Standout.
C18_Witness ==
    /\ last.op = "putsym"
    /\ last.from = SMGRAPHIC
    /\ termmode = SMSTANDOUT
    /\ screen = {SMSTANDOUT}
    /\ out = <<Cap("end_alt"), Cap("start_so"), Byte(Ord("-"))>>

-----------------------------------------------------------------------------
(* The read position of the parser: claim C19. *)

\* The position of the terminator of the text read_varval was given.
TextEnd == StrEnd(pmem, 1)

\* C19 as stated: the read position of read_varval and read_slashed never
\* passes the terminator of the text, a text that ends in a lone backslash
\* or in a backslash and octal digits included.
C19_Original == ppos <= TextEnd

-----------------------------------------------------------------------------
(* Which bindings getcmd can return: claim C20. *)

\* Some binding's sequence is a non-empty proper prefix of seq.
ShorterBound(seq) ==
    \E j \in 1..Len(keycmdtab) :
        /\ keycmdtab[j].c_seq # <<>>
        /\ Len(keycmdtab[j].c_seq) < Len(seq)
        /\ SubSeq(seq, 1, Len(keycmdtab[j].c_seq)) = keycmdtab[j].c_seq

\* The first binding of the table with this sequence.
FirstBound(seq) ==
    CHOOSE i \in 1..Len(keycmdtab) :
        /\ keycmdtab[i].c_seq = seq
        /\ \A j \in 1..(i - 1) : keycmdtab[j].c_seq # seq

\* C20 as stated: a binding getcmd returns has a sequence that is not
\* empty and that no other binding's sequence is a non-empty proper prefix
\* of, and it is the first binding with its sequence; and reading the last
\* byte of the sequence of such a binding returns it.
C20_Original ==
    /\ []((pc = "running" /\ last.op = "getcmd" /\ ret # NoRet /\ Bound(keystroke))
            => /\ keystroke # <<>>
               /\ ~ShorterBound(keystroke)
               /\ ret \div 256 = keycmdtab[FirstBound(keystroke)].c_code)
    /\ [][(/\ pc = "getcmd"
            /\ NoNulIn
            /\ last'.arg \in 1..255
            /\ nchars + 1 < KEYSTROKELEN
            /\ Bound(NewBuf)
            /\ ~ShorterBound(NewBuf))
             => /\ pc' = "running"
                /\ ret' = keycmdtab[FirstBound(NewBuf)].c_code * 256 + last'.arg]_vars

-----------------------------------------------------------------------------
(* getcmd once stdin has ended: claim C21. *)

\* getcmd is in progress: in its loop, or reading the byte behind QUOTEC.
InGetcmd == pc \in {"getcmd", "quote"}

\* C21: once stdin has ended, so that every read yields EOF, a call of getcmd
\* in progress returns to its caller.
C21_Original == (eof /\ InGetcmd) ~> (pc = "running")

=============================================================================
